---- MODULE Spec2Model ----
(***************************************************************************)
(* Model of leetcode.go: an array-backed binary max-heap (Heap, NewHeap,   *)
(* Push, Pop, IsEmpty, Peek) and the sliding-window maximum built on it    *)
(* (maxSlidingWindow), with the input of Test_Func2.                       *)
(*                                                                         *)
(* Go slices are 0-based; the sequences here are 1-based, so every index   *)
(* of the source is kept 0-based and read through At / written through     *)
(* Swap.  An index outside the slice length is a run-time panic in Go: it  *)
(* is modelled by the flag fault, after which nothing runs any more.       *)
(***************************************************************************)
EXTENDS Integers, Sequences, FiniteSets

VARIABLES
    c,      \* Heap.c, the backing array of the heap
    fault,  \* TRUE once an index expression was out of range (Go panic)
    op,     \* heap driver: the last heap method called
    arg,    \* heap driver: the argument of the last Push
    pre,    \* heap driver: Heap.c before the last call
    ret,    \* heap driver: the int returned by the last Pop / Peek
    empty,  \* heap driver: the bool returned by the last IsEmpty
    nums,   \* maxSlidingWindow: the parameter nums
    k,      \* maxSlidingWindow: the parameter k
    i,      \* maxSlidingWindow: the loop variable of the running loop
    res,    \* maxSlidingWindow: the local res
    pc,     \* maxSlidingWindow: position ("idle", "seed", "loop", "done", "fault")
    pushes, \* maxSlidingWindow: number of h.Push calls made so far
    pops,   \* maxSlidingWindow: number of h.Pop calls made so far
    hpc,    \* stepwise heap: position ("idle", "up", "down", "fault")
    pos,    \* stepwise heap: the local idx of the running Push / Pop loop
    from,   \* stepwise heap: idx before the last loop iteration
    before  \* stepwise heap: Heap.c before the last loop iteration

vars == <<c, fault, op, arg, pre, ret, empty, nums, k, i, res, pc, pushes, pops,
          hpc, pos, from, before>>

heapVars == <<op, arg, pre, ret, empty>>
winVars == <<nums, k, i, res, pc, pushes, pops>>
stepVars == <<hpc, pos, from, before>>

(***************************************************************************)
(* Bounds of the model.                                                    *)
(***************************************************************************)
MaxVal == 2
MaxHeap == 5
MaxN == 5
KOver == 2

Vals == -1..MaxVal

\* The input of Test_Func2.
TestNums == <<9, 10, 9, -7, -4, 8, 2, -6>>
TestK == 5

AllSeqs(n) == UNION {[1..m -> Vals] : m \in 0..n}

(***************************************************************************)
(* Slice helpers.                                                          *)
(***************************************************************************)
At(a, idx) == a[idx + 1]

Swap(a, x, y) == [a EXCEPT ![x + 1] = a[y + 1], ![y + 1] = a[x + 1]]

Count(a, v) == Cardinality({j \in DOMAIN a : a[j] = v})

Elems(a) == {a[j] : j \in DOMAIN a}

SameBag(a, b) == Len(a) = Len(b) /\ \A v \in Elems(a) \cup Elems(b) : Count(a, v) = Count(b, v)

(***************************************************************************)
(* The heap.                                                               *)
(***************************************************************************)
NewHeap == << >>

IsEmptyValue(a) == Len(a) = 0

PeekValue(a) == IF ~IsEmptyValue(a) THEN At(a, 0) ELSE -1

\* SiftUp with an if in place of the for: at most one swap.
SiftUpOnce(a, idx) ==
    IF idx - 1 >= 0 /\ At(a, (idx - 1) \div 2) < At(a, idx)
    THEN Swap(a, (idx - 1) \div 2, idx)
    ELSE a

\* The sift-up loop of Push, entered with the new element at idx.
RECURSIVE SiftUp(_, _)
SiftUp(a, idx) ==
    IF idx - 1 >= 0 /\ At(a, (idx - 1) \div 2) < At(a, idx)
    THEN SiftUp(Swap(a, (idx - 1) \div 2, idx), (idx - 1) \div 2)
    ELSE a

\* Push without the sift-up loop.
PushNoSift(a, x) == Append(a, x)

\* Push as a function of the slice: append, then sift up from the last index.
PushValue(a, x) == SiftUp(Append(a, x), Len(a))

\* SiftDown with the comparison of the two children reversed: when both
\* children are larger the smaller one is swapped up.
RECURSIVE SiftDownSmaller(_, _)
SiftDownSmaller(a, idx) ==
    LET left == idx * 2 + 1
        right == idx * 2 + 2
        n == Len(a)
    IN  IF ~(idx < n) THEN [c |-> a, fault |-> FALSE]
        ELSE IF right >= n /\ left >= n THEN [c |-> a, fault |-> FALSE]
        ELSE IF right >= n /\ At(a, idx) < At(a, left)
             THEN SiftDownSmaller(Swap(a, idx, left), left)
        ELSE IF At(a, idx) >= At(a, left) /\ right >= n
             THEN [c |-> a, fault |-> TRUE]
        ELSE IF At(a, idx) >= At(a, left) /\ At(a, idx) >= At(a, right)
             THEN [c |-> a, fault |-> FALSE]
        ELSE IF At(a, idx) >= At(a, left)
             THEN SiftDownSmaller(Swap(a, idx, right), right)
        ELSE IF At(a, idx) >= At(a, right)
             THEN SiftDownSmaller(Swap(a, idx, left), left)
        ELSE IF At(a, left) > At(a, right)
             THEN SiftDownSmaller(Swap(a, idx, right), right)
        ELSE SiftDownSmaller(Swap(a, idx, left), left)

\* The sift-down loop of Pop, entered at idx after the root was replaced by
\* the last element and the slice shrunk.  The result is the slice and
\* whether the loop read h.c[right] with right outside the slice.
RECURSIVE SiftDown(_, _)
SiftDown(a, idx) ==
    LET left == idx * 2 + 1
        right == idx * 2 + 2
        n == Len(a)
    IN  IF ~(idx < n) THEN [c |-> a, fault |-> FALSE]
        ELSE IF right >= n /\ left >= n THEN [c |-> a, fault |-> FALSE]
        ELSE IF right >= n /\ At(a, idx) < At(a, left)
             THEN SiftDown(Swap(a, idx, left), left)
        ELSE IF At(a, idx) >= At(a, left) /\ right >= n
             THEN [c |-> a, fault |-> TRUE]
        ELSE IF At(a, idx) >= At(a, left) /\ At(a, idx) >= At(a, right)
             THEN [c |-> a, fault |-> FALSE]
        ELSE IF At(a, idx) >= At(a, left)
             THEN SiftDown(Swap(a, idx, right), right)
        ELSE IF At(a, idx) >= At(a, right)
             THEN SiftDown(Swap(a, idx, left), left)
        ELSE IF At(a, left) < At(a, right)
             THEN SiftDown(Swap(a, idx, right), right)
        ELSE SiftDown(Swap(a, idx, left), left)

\* Pop with res initialised to 0 instead of -1.
PopValueZero(a) ==
    IF ~IsEmptyValue(a)
    THEN LET moved == [a EXCEPT ![1] = a[Len(a)]]
             down == SiftDown(SubSeq(moved, 1, Len(a) - 1), 0)
         IN  [c |-> down.c, ret |-> At(a, 0), fault |-> down.fault]
    ELSE [c |-> a, ret |-> 0, fault |-> FALSE]

\* Pop without the sift-down loop.
PopValueNoSift(a) ==
    IF ~IsEmptyValue(a)
    THEN LET moved == [a EXCEPT ![1] = a[Len(a)]]
         IN  [c |-> SubSeq(moved, 1, Len(a) - 1), ret |-> At(a, 0), fault |-> FALSE]
    ELSE [c |-> a, ret |-> -1, fault |-> FALSE]

\* Pop as a function of the slice: the slice it leaves, the value it
\* returns (when it returns) and whether it panicked.
PopValue(a) ==
    IF ~IsEmptyValue(a)
    THEN LET moved == [a EXCEPT ![1] = a[Len(a)]]
             down == SiftDown(SubSeq(moved, 1, Len(a) - 1), 0)
         IN  [c |-> down.c, ret |-> At(a, 0), fault |-> down.fault]
    ELSE [c |-> a, ret |-> -1, fault |-> FALSE]

(***************************************************************************)
(* Heap driver: any interleaving of the four methods on one heap.          *)
(***************************************************************************)
InitHeap ==
    /\ c = NewHeap
    /\ fault = FALSE
    /\ op = "NewHeap"
    /\ arg = 0
    /\ pre = << >>
    /\ ret = 0
    /\ empty = TRUE
    /\ nums = << >>
    /\ k = 0
    /\ i = 0
    /\ res = << >>
    /\ pc = "idle"
    /\ pushes = 0
    /\ pops = 0
    /\ hpc = "idle"
    /\ pos = 0
    /\ from = 0
    /\ before = << >>

Push ==
    /\ ~fault
    /\ Len(c) < MaxHeap
    /\ \E x \in Vals :
        /\ c' = PushValue(c, x)
        /\ arg' = x
    /\ op' = "Push"
    /\ pre' = c
    /\ UNCHANGED <<fault, ret, empty, winVars, stepVars>>

Pop ==
    /\ ~fault
    /\ LET r == PopValue(c)
       IN  /\ c' = r.c
           /\ fault' = r.fault
           /\ ret' = IF r.fault THEN ret ELSE r.ret
    /\ op' = "Pop"
    /\ pre' = c
    /\ UNCHANGED <<arg, empty, winVars, stepVars>>

\* Peek that also drops the element it returns.
PeekRemoving ==
    /\ ~fault
    /\ ret' = PeekValue(c)
    /\ c' = IF ~IsEmptyValue(c) THEN Tail(c) ELSE c
    /\ op' = "Peek"
    /\ pre' = c
    /\ UNCHANGED <<fault, arg, empty, winVars, stepVars>>

Peek ==
    /\ ~fault
    /\ ret' = PeekValue(c)
    /\ op' = "Peek"
    /\ pre' = c
    /\ UNCHANGED <<c, fault, arg, empty, winVars, stepVars>>

IsEmpty ==
    /\ ~fault
    /\ empty' = IsEmptyValue(c)
    /\ op' = "IsEmpty"
    /\ pre' = c
    /\ UNCHANGED <<c, fault, arg, ret, winVars, stepVars>>

Next == Push \/ Pop \/ Peek \/ IsEmpty

Spec == InitHeap /\ [][Next]_vars

(***************************************************************************)
(* maxSlidingWindow, one action per loop iteration.                        *)
(***************************************************************************)
InitWin ==
    /\ c = NewHeap
    /\ fault = FALSE
    /\ op = "NewHeap"
    /\ arg = 0
    /\ pre = << >>
    /\ ret = 0
    /\ empty = TRUE
    /\ nums \in AllSeqs(MaxN) \cup {TestNums}
    /\ k \in 1..(Len(nums) + KOver)
    /\ i = 0
    /\ res = << >>
    /\ pc = "seed"
    /\ pushes = 0
    /\ pops = 0
    /\ hpc = "idle"
    /\ pos = 0
    /\ from = 0
    /\ before = << >>

\* SeedPush with the seeding loop bounded by len(nums) as well: past the end
\* of nums the loop ends instead of reading nums[i].
SeedPushClamped ==
    /\ pc = "seed"
    /\ i < k
    /\ IF i < Len(nums)
       THEN /\ c' = PushValue(c, At(nums, i))
            /\ pushes' = pushes + 1
            /\ i' = i + 1
            /\ UNCHANGED <<fault, pc>>
       ELSE /\ pc' = "loop"
            /\ i' = 0
            /\ UNCHANGED <<c, fault, pushes>>
    /\ UNCHANGED <<heapVars, stepVars, nums, k, res, pops>>

\* One iteration of the seeding loop: h.Push(nums[i]).
SeedPush ==
    /\ pc = "seed"
    /\ i < k
    /\ IF i < Len(nums)
       THEN /\ c' = PushValue(c, At(nums, i))
            /\ pushes' = pushes + 1
            /\ i' = i + 1
            /\ UNCHANGED <<fault, pc>>
       ELSE /\ fault' = TRUE
            /\ pc' = "fault"
            /\ UNCHANGED <<c, i, pushes>>
    /\ UNCHANGED <<heapVars, stepVars, nums, k, res, pops>>

\* The seeding loop ends and the window loop starts with i = 0.
SeedDone ==
    /\ pc = "seed"
    /\ ~(i < k)
    /\ pc' = "loop"
    /\ i' = 0
    /\ UNCHANGED <<c, fault, heapVars, stepVars, nums, k, res, pushes, pops>>

\* The iteration i = 0 of the window loop.
FirstWindow ==
    /\ pc = "loop"
    /\ i + k - 1 < Len(nums)
    /\ i = 0
    /\ res' = Append(res, PeekValue(c))
    /\ i' = i + 1
    /\ UNCHANGED <<c, fault, heapVars, stepVars, nums, k, pc, pushes, pops>>

\* NextWindow comparing the root with nums[i], the first element still in
\* the window, instead of nums[i-1], the element that left it.
NextWindowOffByOne ==
    /\ pc = "loop"
    /\ i + k - 1 < Len(nums)
    /\ i # 0
    /\ LET leaving == PeekValue(c) = At(nums, i)
           popped == IF leaving
                     THEN PopValue(c)
                     ELSE [c |-> c, ret |-> -1, fault |-> FALSE]
       IN  /\ pops' = IF leaving THEN pops + 1 ELSE pops
           /\ IF popped.fault
              THEN /\ c' = popped.c
                   /\ fault' = TRUE
                   /\ pc' = "fault"
                   /\ UNCHANGED <<i, res, pushes>>
              ELSE /\ c' = PushValue(popped.c, At(nums, i + k - 1))
                   /\ pushes' = pushes + 1
                   /\ res' = Append(res, PeekValue(c'))
                   /\ i' = i + 1
                   /\ UNCHANGED <<fault, pc>>
    /\ UNCHANGED <<heapVars, stepVars, nums, k>>

\* An iteration i >= 1 of the window loop.
NextWindow ==
    /\ pc = "loop"
    /\ i + k - 1 < Len(nums)
    /\ i # 0
    /\ LET leaving == PeekValue(c) = At(nums, i - 1)
           popped == IF leaving
                     THEN PopValue(c)
                     ELSE [c |-> c, ret |-> -1, fault |-> FALSE]
       IN  /\ pops' = IF leaving THEN pops + 1 ELSE pops
           /\ IF popped.fault
              THEN /\ c' = popped.c
                   /\ fault' = TRUE
                   /\ pc' = "fault"
                   /\ UNCHANGED <<i, res, pushes>>
              ELSE /\ c' = PushValue(popped.c, At(nums, i + k - 1))
                   /\ pushes' = pushes + 1
                   /\ res' = Append(res, PeekValue(c'))
                   /\ i' = i + 1
                   /\ UNCHANGED <<fault, pc>>
    /\ UNCHANGED <<heapVars, stepVars, nums, k>>

\* The window loop ends: return res.
Return ==
    /\ pc = "loop"
    /\ ~(i + k - 1 < Len(nums))
    /\ pc' = "done"
    /\ UNCHANGED <<c, fault, heapVars, stepVars, nums, k, i, res, pushes, pops>>

maxSlidingWindow == SeedPush \/ SeedDone \/ FirstWindow \/ NextWindow \/ Return

SpecWin == InitWin /\ [][maxSlidingWindow]_vars

(***************************************************************************)
(* Push and Pop, one action per loop iteration.  While a Pop runs, ret     *)
(* holds its local res.                                                    *)
(***************************************************************************)
InitStep == InitHeap

\* One evaluation of the loop of Push at idx: the condition and, when it
\* holds, the body.
PushIteration(a, idx) ==
    IF idx - 1 >= 0 /\ At(a, (idx - 1) \div 2) < At(a, idx)
    THEN [kind |-> "swap", c |-> Swap(a, (idx - 1) \div 2, idx), idx |-> (idx - 1) \div 2]
    ELSE [kind |-> "return", c |-> a, idx |-> idx]

\* PopIteration with <= in the left-child-only test of line 65: an equal
\* left child is swapped up.
PopIterationSwapEqual(a, idx) ==
    LET left == idx * 2 + 1
        right == idx * 2 + 2
        n == Len(a)
        stop == [kind |-> "return", c |-> a, idx |-> idx]
        swapWith(child) == [kind |-> "swap", c |-> Swap(a, idx, child), idx |-> child]
    IN  IF ~(idx < n) THEN stop
        ELSE IF right >= n /\ left >= n THEN stop
        ELSE IF right >= n /\ At(a, idx) <= At(a, left) THEN swapWith(left)
        ELSE IF At(a, idx) >= At(a, left) /\ right >= n
             THEN [kind |-> "panic", c |-> a, idx |-> idx]
        ELSE IF At(a, idx) >= At(a, left) /\ At(a, idx) >= At(a, right) THEN stop
        ELSE IF At(a, idx) >= At(a, left) THEN swapWith(right)
        ELSE IF At(a, idx) >= At(a, right) THEN swapWith(left)
        ELSE IF At(a, left) < At(a, right) THEN swapWith(right)
        ELSE swapWith(left)

\* PopIteration with <= in the comparison of the children of line 87: of
\* two equal children the right one is swapped up.
PopIterationTieRight(a, idx) ==
    LET left == idx * 2 + 1
        right == idx * 2 + 2
        n == Len(a)
        stop == [kind |-> "return", c |-> a, idx |-> idx]
        swapWith(child) == [kind |-> "swap", c |-> Swap(a, idx, child), idx |-> child]
    IN  IF ~(idx < n) THEN stop
        ELSE IF right >= n /\ left >= n THEN stop
        ELSE IF right >= n /\ At(a, idx) < At(a, left) THEN swapWith(left)
        ELSE IF At(a, idx) >= At(a, left) /\ right >= n
             THEN [kind |-> "panic", c |-> a, idx |-> idx]
        ELSE IF At(a, idx) >= At(a, left) /\ At(a, idx) >= At(a, right) THEN stop
        ELSE IF At(a, idx) >= At(a, left) THEN swapWith(right)
        ELSE IF At(a, idx) >= At(a, right) THEN swapWith(left)
        ELSE IF At(a, left) <= At(a, right) THEN swapWith(right)
        ELSE swapWith(left)

\* One evaluation of the loop of Pop at idx: the condition and, when it
\* holds, the body up to its return, continue or out-of-range read.
PopIteration(a, idx) ==
    LET left == idx * 2 + 1
        right == idx * 2 + 2
        n == Len(a)
        stop == [kind |-> "return", c |-> a, idx |-> idx]
        swapWith(child) == [kind |-> "swap", c |-> Swap(a, idx, child), idx |-> child]
    IN  IF ~(idx < n) THEN stop
        ELSE IF right >= n /\ left >= n THEN stop
        ELSE IF right >= n /\ At(a, idx) < At(a, left) THEN swapWith(left)
        ELSE IF At(a, idx) >= At(a, left) /\ right >= n
             THEN [kind |-> "panic", c |-> a, idx |-> idx]
        ELSE IF At(a, idx) >= At(a, left) /\ At(a, idx) >= At(a, right) THEN stop
        ELSE IF At(a, idx) >= At(a, left) THEN swapWith(right)
        ELSE IF At(a, idx) >= At(a, right) THEN swapWith(left)
        ELSE IF At(a, left) < At(a, right) THEN swapWith(right)
        ELSE swapWith(left)

\* Push(x) up to its loop: append x, idx := len(h.c)-1.
PushBegin ==
    /\ hpc = "idle"
    /\ Len(c) < MaxHeap
    /\ \E x \in Vals :
        /\ c' = Append(c, x)
        /\ before' = Append(c, x)
        /\ arg' = x
    /\ op' = "Push"
    /\ pre' = c
    /\ hpc' = "up"
    /\ pos' = Len(c)
    /\ from' = Len(c)
    /\ UNCHANGED <<fault, ret, empty, winVars>>

\* One evaluation of the loop of Push.
PushIter ==
    /\ hpc = "up"
    /\ LET r == PushIteration(c, pos)
       IN  /\ c' = r.c
           /\ pos' = r.idx
           /\ hpc' = IF r.kind = "swap" THEN "up" ELSE "idle"
    /\ from' = pos
    /\ before' = c
    /\ UNCHANGED <<fault, heapVars, winVars>>

\* Pop() up to its loop: on an empty heap return -1; otherwise res := h.c[0],
\* move the last element to the root, shrink, idx := 0.
PopBegin ==
    /\ hpc = "idle"
    /\ op' = "Pop"
    /\ pre' = c
    /\ IF ~IsEmptyValue(c)
       THEN /\ ret' = At(c, 0)
            /\ c' = SubSeq([c EXCEPT ![1] = c[Len(c)]], 1, Len(c) - 1)
            /\ before' = SubSeq([c EXCEPT ![1] = c[Len(c)]], 1, Len(c) - 1)
            /\ hpc' = "down"
            /\ pos' = 0
            /\ from' = 0
       ELSE /\ ret' = -1
            /\ UNCHANGED <<c, stepVars>>
    /\ UNCHANGED <<fault, arg, empty, winVars>>

\* One evaluation of the loop of Pop.
PopIter ==
    /\ hpc = "down"
    /\ LET r == PopIteration(c, pos)
       IN  /\ c' = r.c
           /\ pos' = r.idx
           /\ hpc' = CASE r.kind = "swap" -> "down"
                       [] r.kind = "return" -> "idle"
                       [] r.kind = "panic" -> "fault"
           /\ fault' = (r.kind = "panic")
    /\ from' = pos
    /\ before' = c
    /\ UNCHANGED <<heapVars, winVars>>

NextStep == PushBegin \/ PushIter \/ PopBegin \/ PopIter

SpecStep == InitStep /\ [][NextStep]_vars

(***************************************************************************)
(* Properties.                                                             *)
(***************************************************************************)
\* The max-heap property of a backing array.
IsMaxHeap(a) ==
    \A idx \in 0..(Len(a) - 1) :
        /\ (2 * idx + 1 < Len(a) => At(a, idx) >= At(a, 2 * idx + 1))
        /\ (2 * idx + 2 < Len(a) => At(a, idx) >= At(a, 2 * idx + 2))

\* The maximum of s[start..start+w-1] (0-based), by scanning the window.
WindowMax(s, start, w) ==
    CHOOSE m \in {At(s, j) : j \in start..(start + w - 1)} :
        \A j \in start..(start + w - 1) : At(s, j) <= m

ValidK == 1 <= k /\ k <= Len(nums)

\* The 0-based indices on the path from idx up to the root.
RECURSIVE Ancestors(_)
Ancestors(idx) == IF idx <= 0 THEN {0} ELSE {idx} \cup Ancestors((idx - 1) \div 2)

\* C1: for 1 <= k <= n the sequence maxSlidingWindow returns holds, at every
\* window start j in 0..n-k, the maximum of nums[j..j+k-1].
C1_WindowMaxima ==
    (pc = "done" /\ ValidK) =>
        \A j \in 0..(Len(nums) - k) :
            j < Len(res) /\ At(res, j) = WindowMax(nums, j, k)

\* C2: for a non-empty nums and 1 <= k <= n, maxSlidingWindow does not fault
\* and the sequence it returns has exactly n - k + 1 elements.
C2_CompletesWithLength ==
    ValidK =>
        /\ pc # "fault"
        /\ (pc = "done" => Len(res) = Len(nums) - k + 1)

\* C3: after any sequence of Push and Pop calls on a new heap, every element
\* of the backing array is >= both of its children that are in range.
C3_MaxHeapProperty == IsMaxHeap(c)

C3_Witness ==
    /\ op = "Pop"
    /\ ~fault
    /\ Len(c) = 4
    /\ c # SubSeq(pre, 2, Len(pre))
    /\ At(c, 0) > At(c, 3)

\* C4: Pop on a non-empty heap that satisfies the max-heap property returns
\* without indexing outside the backing array.
C4_PopStaysInRange ==
    (op = "Pop" /\ Len(pre) > 0 /\ IsMaxHeap(pre)) => ~fault

\* C5: whenever the heap is non-empty, Peek returns a value >= every element
\* stored in the heap.
C5_PeekIsMaximum ==
    /\ Len(c) > 0 => \A j \in DOMAIN c : PeekValue(c) >= c[j]
    /\ (op = "Peek" /\ Len(c) > 0) => \A j \in DOMAIN c : ret >= c[j]

C5_Witness ==
    /\ op = "Peek"
    /\ Len(c) >= 4
    /\ ret = At(c, 0)
    /\ ret > At(c, 1)
    /\ At(c, 3) > At(c, 2)

\* C6: Pop on a non-empty heap returns the value that was at the root, which
\* is the maximum stored value, and leaves the previous elements minus one
\* occurrence of that value (one element fewer).
C6_PopRemovesRoot ==
    (op = "Pop" /\ Len(pre) > 0) =>
        /\ ~fault
        /\ ret = At(pre, 0)
        /\ \A j \in DOMAIN pre : ret >= pre[j]
        /\ Len(c) = Len(pre) - 1
        /\ SameBag(Append(c, ret), pre)

\* C7: Push(x) does not fault and leaves the previous elements plus one x
\* (one element more); x ends on the path from the last index to the root,
\* every element it passed moved one step down that path and was strictly
\* smaller than x, every other element kept its place, and x stopped at the
\* root or under a parent that is not smaller.
C7_PushSiftsUp ==
    op = "Push" =>
        LET a == Append(pre, arg)
            last == Len(pre)
        IN  /\ ~fault
            /\ Len(c) = Len(pre) + 1
            /\ SameBag(c, a)
            /\ \E stop \in Ancestors(last) :
                /\ At(c, stop) = arg
                /\ \A p \in Ancestors(last) :
                       p > stop => /\ At(c, p) = At(a, (p - 1) \div 2)
                                   /\ At(a, (p - 1) \div 2) < arg
                /\ \A q \in 0..last :
                       ~(q \in Ancestors(last) /\ q >= stop) => At(c, q) = At(a, q)
                /\ (stop = 0 \/ At(a, (stop - 1) \div 2) >= arg)

C7_Witness ==
    /\ op = "Push"
    /\ Len(c) = 5
    /\ At(c, 1) = arg
    /\ At(c, 4) = At(pre, 1)
    /\ At(pre, 1) < arg
    /\ At(c, 0) > arg

\* C8: Pop on an empty heap returns -1 and leaves the heap empty, and Peek
\* on an empty heap returns -1; neither faults.
C8_EmptySentinel ==
    (op \in {"Pop", "Peek"} /\ Len(pre) = 0) =>
        /\ ~fault
        /\ ret = -1
        /\ c = << >>

C8_Witness ==
    /\ op = "Pop"
    /\ pre = << >>
    /\ c = << >>
    /\ ret = -1
    /\ ~fault

C10_ConstantInput ==
    (ValidK /\ \A j \in DOMAIN nums : nums[j] = nums[1]) =>
        /\ pc # "fault"
        /\ (pc = "done" =>
                /\ Len(res) = Len(nums) - k + 1
                /\ \A j \in DOMAIN res : res[j] = nums[1])

\* C11: for a non-empty nums, maxSlidingWindow(nums, n) does not fault,
\* calls Pop at no point, and returns exactly one element, the maximum of
\* nums.
C11_FullWindow ==
    (Len(nums) >= 1 /\ k = Len(nums)) =>
        /\ pc # "fault"
        /\ pops = 0
        /\ (pc = "done" =>
                /\ Len(res) = 1
                /\ \A j \in DOMAIN nums : res[1] >= nums[j]
                /\ \E j \in DOMAIN nums : res[1] = nums[j])

C11_Witness ==
    /\ Len(nums) >= 3
    /\ k = Len(nums)
    /\ pc = "done"
    /\ Len(res) = 1
    /\ res[1] = nums[2]
    /\ nums[2] > nums[1]
    /\ nums[2] > nums[3]

\* C12: Peek and IsEmpty leave the backing array as it was before the call
\* and do not fault, and a Peek made right after a Peek, with no Push or Pop
\* in between, returns the value the first one returned.
C12_ReadOnly ==
    /\ op \in {"Peek", "IsEmpty"} => (c = pre /\ ~fault)
    /\ op = "Peek" => ret = PeekValue(c)
    /\ op = "IsEmpty" => empty = IsEmptyValue(c)

C12_Witness ==
    /\ op = "Peek"
    /\ Len(pre) >= 3
    /\ c = pre
    /\ ret = At(pre, 0)
    /\ ret # At(pre, 1)

\* No value occurs twice in s.
Distinct(s) == \A x, y \in DOMAIN s : x # y => s[x] # s[y]

\* C13: when the values of nums are pairwise distinct and 1 <= k <= n, every
\* element of the returned sequence is the maximum of its window.
C13_DistinctInput ==
    (pc = "done" /\ ValidK /\ Distinct(nums)) =>
        /\ Len(res) = Len(nums) - k + 1
        /\ \A j \in 0..(Len(res) - 1) : At(res, j) = WindowMax(nums, j, k)

\* Every value occurs in h at least as often as in w.
SubBag(w, h) == \A v \in Elems(w) : Count(w, v) <= Count(h, v)

\* The window nums[j..j+k-1] (0-based).
Window(j) == SubSeq(nums, j + 1, j + k)

\* C14: for 1 <= k <= n, between the iterations of the window loop the heap
\* holds every element of the current window (as a multiset), and every
\* element res[j] produced so far is >= the maximum of nums[j..j+k-1] and
\* occurs in nums[0..j+k-1].
C14_NeverUnderReports ==
    ValidK =>
        /\ pc \in {"loop", "done"} => SubBag(Window(IF i = 0 THEN 0 ELSE i - 1), c)
        /\ \A j \in 0..(Len(res) - 1) :
               /\ At(res, j) >= WindowMax(nums, j, k)
               /\ \E m \in 0..(j + k - 1) : At(nums, m) = At(res, j)

C14_Witness ==
    /\ ValidK
    /\ pc = "done"
    /\ Len(res) >= 3
    /\ pops >= 1
    /\ At(res, 2) > WindowMax(nums, 2, k)
    /\ Len(c) > k

\* C15: for 1 <= k <= n, every iteration i >= 1 of the window loop calls
\* Pop at most once (exactly when Peek equals nums[i-1]) and then calls Push
\* exactly once, and every iteration reads its result from a heap of at
\* least k and at most k + i elements, hence from a non-empty heap.
C15_StepCalls ==
    [][(ValidK /\ pc = "loop" /\ i + k - 1 < Len(nums)) =>
          /\ i >= 1 => /\ pops' \in {pops, pops + 1}
                       /\ pops' = pops + 1 <=> PeekValue(c) = At(nums, i - 1)
                       /\ pushes' = pushes + 1
          /\ Len(res') = Len(res) + 1
          /\ Len(c') >= k
          /\ Len(c') <= k + i
          /\ At(res', Len(res)) = At(c', 0)]_vars

\* The last step was an iteration of Pop's loop that swapped the node at
\* from with the child at pos.
SwappedDown == hpc = "down" /\ pos # from

\* The last step was an iteration of Pop's loop that ended the call.
StoppedDown == hpc \in {"idle", "fault"} /\ op = "Pop" /\ Len(pre) > 0

\* The child at index child was in range and strictly greater than the node
\* at from before the last iteration.
Greater(child) == child < Len(before) /\ At(before, child) > At(before, from)

\* C16: an iteration of Pop's sift-down swaps the node only with one of its
\* children that is strictly greater than it; when exactly one child is
\* strictly greater the swap is with that child, when both are and their
\* values differ it is with the larger one, and when none is there is no
\* swap.
C16_SwapOnlyWithLarger ==
    LET l == from * 2 + 1
        r == from * 2 + 2
    IN  /\ SwappedDown =>
               /\ pos \in {l, r}
               /\ Greater(pos)
               /\ c = Swap(before, from, pos)
               /\ (Greater(l) /\ ~Greater(r)) => pos = l
               /\ (Greater(r) /\ ~Greater(l)) => pos = r
               /\ (Greater(l) /\ Greater(r) /\ At(before, l) > At(before, r)) => pos = l
               /\ (Greater(l) /\ Greater(r) /\ At(before, r) > At(before, l)) => pos = r
        /\ StoppedDown => (~Greater(l) /\ ~Greater(r) /\ c = before)

C16_Witness ==
    /\ SwappedDown
    /\ from = 0
    /\ pos = 2
    /\ Greater(2)
    /\ At(before, 1) = At(before, 0)
    /\ Len(before) >= 4

\* Before the last iteration the node at from had two children of equal
\* value, both strictly greater than it.
TieCase ==
    /\ SwappedDown
    /\ Greater(from * 2 + 1)
    /\ Greater(from * 2 + 2)
    /\ At(before, from * 2 + 1) = At(before, from * 2 + 2)

\* C17 as stated: when both children are equal and strictly greater than the
\* node, the sift-down swaps with the right child.
C17_TieGoesRightStated == TieCase => pos = from * 2 + 2

\* C17: when both children are equal and strictly greater than the node, the
\* sift-down swaps with the left child.
C17_TieGoesLeft ==
    TieCase => (pos = from * 2 + 1 /\ c = Swap(before, from, from * 2 + 1))

C17_Witness ==
    /\ TieCase
    /\ pos = from * 2 + 1
    /\ At(c, from) > At(c, pos)

\* C18: for 1 <= k <= n, maxSlidingWindow ends by returning, after exactly
\* n - k + 1 iterations of the window loop (no Push or Pop inside it ends
\* the call otherwise).
C18_EndsAfterAllWindows ==
    (ValidK /\ pc \in {"done", "fault"}) =>
        /\ pc = "done"
        /\ i = Len(nums) - k + 1

\* C19: for k > n, maxSlidingWindow never gets past its seeding loop: it
\* produces no result element and calls no Pop, and its fault is the read of
\* nums[i] with i = n, after the n elements of nums were pushed.
C19_OversizedK ==
    k > Len(nums) =>
        /\ pc \in {"seed", "fault"}
        /\ res = << >>
        /\ pops = 0
        /\ i <= Len(nums)
        /\ pc = "fault" => (fault /\ i = Len(nums) /\ pushes = Len(nums) /\ Len(c) = Len(nums))

C19_Witness ==
    /\ k > Len(nums) + 1
    /\ Len(nums) >= 2
    /\ pc = "fault"
    /\ fault
    /\ i = Len(nums)
    /\ res = << >>

====
